---- MODULE Spec2Model ----
(***************************************************************************)
(* Layout and pagination engine of bookWriter (packages/core/src/layout).  *)
(*                                                                         *)
(* Numbers.  The source computes in f32.  The model computes in integers   *)
(* of one tenth of a point: configuration values (page size, margins,      *)
(* font sizes) are whole points, line-height multipliers and the average   *)
(* character width ratio are tenths (1.5 -> 15, 0.6 -> 6), and every       *)
(* measured width, line height and page offset is a number of tenths.      *)
(* Floating-point rounding is not modelled.                                *)
(*                                                                         *)
(* Text.  A text is a sequence of one-character strings.                   *)
(***************************************************************************)
EXTENDS Integers, Sequences, FiniteSets, TLC

VARIABLES
    \* ---- layout_book_with_metrics / Paginator ----
    config,           \* the LayoutConfig of the call
    book,             \* the Book of the call
    pc,               \* position of the layout call ("done": returned)
    chapter_index,    \* 1-based index of the chapter of the for loop of paginate
    block_index,      \* 1-based index of the block of the for loop of paginate_chapter
    lines,            \* `lines` of add_lines_to_pages (not yet placed)
    current_page,     \* Paginator.current_page : PageBuilder
    completed_pages,  \* Paginator.completed_pages
    page_counter,     \* Paginator.page_counter
    uuid_seed,        \* entropy behind Uuid::new_v4 in this call
    uuid_calls,       \* number of Uuid::new_v4 calls made in this call
    result,           \* value returned by the call (NoResult until it returns)
    first_result,     \* value returned by an earlier call on the same inputs
    \* ---- LineBreaker::break_lines, run on its own ----
    lb_pc,                \* position inside break_lines
    lb_text,              \* argument text
    lb_max_width,         \* LineBreaker.max_width
    lb_style,             \* argument style
    lb_words,             \* words not yet consumed by the for loop
    lb_lines,             \* local `lines`
    current_line_words,   \* local `current_line_words`
    current_line_width,   \* local `current_line_width`
    \* ---- BkParser::parse_string ----
    bk_pc,                \* position inside parse_string ("done": returned)
    content,              \* argument content, as the lines content.lines() yields
    state,                \* BkParser.state
    line_number,          \* BkParser.line_number
    metadata,             \* BkParser.metadata
    chapters,             \* BkParser.chapters
    current_chapter,      \* BkParser.current_chapter
    current_block,        \* BkParser.current_block
    parse_result          \* value returned by parse_string (NoResult until it returns)

pagVars == <<config, book, pc, chapter_index, block_index, lines, current_page,
             completed_pages, page_counter, uuid_seed, uuid_calls, result,
             first_result>>
lbVars == <<lb_pc, lb_text, lb_max_width, lb_style, lb_words, lb_lines,
            current_line_words, current_line_width>>
bkVars == <<bk_pc, content, state, line_number, metadata, chapters,
            current_chapter, current_block, parse_result>>
vars == <<pagVars, lbVars, bkVars>>

----------------------------------------------------------------------------
(* Bounds *)

MaxTextLen == 6
MaxChapters == 2
MaxBlocks == 2
MaxPages == 8
MaxBkLines == 3

----------------------------------------------------------------------------
(* Fixed point and text helpers *)

Scale == 10
AvgCharWidthRatio == 6

Whitespace == {" ", "\n"}
Letters == {"a", "b"}
Chars == Letters \cup Whitespace

RECURSIVE TextsOfLen(_)
TextsOfLen(n) ==
    IF n = 0 THEN {<<>>}
    ELSE {Append(t, c) : t \in TextsOfLen(n - 1), c \in Chars}

TextsUpTo(n) == UNION {TextsOfLen(k) : k \in 0..n}

RECURSIVE Concat(_)
Concat(seqs) == IF seqs = <<>> THEN <<>> ELSE Head(seqs) \o Concat(Tail(seqs))

\* str::split_whitespace: maximal runs of non-whitespace characters, in order
RECURSIVE SplitFrom(_, _, _)
SplitFrom(text, cur, acc) ==
    IF text = <<>> THEN (IF cur = <<>> THEN acc ELSE Append(acc, cur))
    ELSE IF Head(text) \in Whitespace
         THEN SplitFrom(Tail(text), <<>>, IF cur = <<>> THEN acc ELSE Append(acc, cur))
         ELSE SplitFrom(Tail(text), Append(cur, Head(text)), acc)

\* str::split(' '): pieces between single spaces, empty pieces kept
RECURSIVE SplitKeep(_, _, _)
SplitKeep(text, cur, acc) ==
    IF text = <<>> THEN Append(acc, cur)
    ELSE IF Head(text) = " "
         THEN SplitKeep(Tail(text), <<>>, Append(acc, cur))
         ELSE SplitKeep(Tail(text), Append(cur, Head(text)), acc)

split_into_words_OnSpace(text) == SplitKeep(text, <<>>, <<>>)

split_into_words(text) == SplitFrom(text, <<>>, <<>>)

\* [String]::join(" ")
RECURSIVE join(_)
join(words) ==
    IF words = <<>> THEN <<>>
    ELSE IF Len(words) = 1 THEN Head(words)
    ELSE Head(words) \o <<" ">> \o join(Tail(words))

----------------------------------------------------------------------------
(* SimpleTextMetrics *)

measure_text(text, font_size) == Len(text) * font_size * AvgCharWidthRatio
measure_char_NoSpace(c, font_size) == 0

measure_char(c, font_size) == font_size * AvgCharWidthRatio
line_height(font_size, multiplier) == font_size * multiplier

----------------------------------------------------------------------------
(* LineBreaker *)

build_line_NilSource(words, style, source_id, line_index) ==
    [y_offset |-> line_index * line_height(style.font_size, style.line_height),
     fragments |-> << [text |-> join(words),
                       x_offset |-> 0,
                       style |-> style,
                       source_block_id |-> <<"nil", 0, 0>>] >>]

build_line_YFromOne(words, style, source_id, line_index) ==
    [y_offset |-> (line_index + 1) * line_height(style.font_size, style.line_height),
     fragments |-> << [text |-> join(words),
                       x_offset |-> 0,
                       style |-> style,
                       source_block_id |-> source_id] >>]

build_line(words, style, source_id, line_index) ==
    [y_offset |-> line_index * line_height(style.font_size, style.line_height),
     fragments |-> << [text |-> join(words),
                       x_offset |-> 0,
                       style |-> style,
                       source_block_id |-> source_id] >>]

\* the locals of break_lines before the for loop
BreakInit == [lines |-> <<>>, current_line_words |-> <<>>, current_line_width |-> 0]

FitsLine_Strict(width_with_word, max_width) == width_with_word < max_width

FitsLine(width_with_word, max_width) == width_with_word <= max_width

BreakWord_OneWordPerLine(st, word, style, source_id, max_width) ==
    LET word_width == measure_text(word, style.font_size)
    IN  [lines |-> IF st.current_line_words # <<>>
                   THEN Append(st.lines,
                               build_line(st.current_line_words, style,
                                          source_id, Len(st.lines)))
                   ELSE st.lines,
         current_line_words |-> <<word>>,
         current_line_width |-> word_width]

BreakWord_PushEmpty(st, word, style, source_id, max_width) ==
    LET space_width == measure_char(" ", style.font_size)
        word_width == measure_text(word, style.font_size)
        width_with_word ==
            IF st.current_line_words = <<>> THEN word_width
            ELSE st.current_line_width + space_width + word_width
    IN  IF FitsLine(width_with_word, max_width)
        THEN [st EXCEPT !.current_line_words = Append(@, word),
                        !.current_line_width = width_with_word]
        ELSE [lines |-> Append(st.lines,
                               build_line(st.current_line_words, style,
                                          source_id, Len(st.lines))),
              current_line_words |-> <<word>>,
              current_line_width |-> word_width]

\* one iteration of the for loop of break_lines
BreakWord(st, word, style, source_id, max_width) ==
    LET space_width == measure_char(" ", style.font_size)
        word_width == measure_text(word, style.font_size)
        width_with_word ==
            IF st.current_line_words = <<>> THEN word_width
            ELSE st.current_line_width + space_width + word_width
    IN  IF FitsLine(width_with_word, max_width)
        THEN [st EXCEPT !.current_line_words = Append(@, word),
                        !.current_line_width = width_with_word]
        ELSE [lines |-> IF st.current_line_words # <<>>
                        THEN Append(st.lines,
                                    build_line(st.current_line_words, style,
                                               source_id, Len(st.lines)))
                        ELSE st.lines,
              current_line_words |-> <<word>>,
              current_line_width |-> word_width]

BreakFlush_DropLast(st, style, source_id) == st.lines

\* the code after the for loop of break_lines
BreakFlush(st, style, source_id) ==
    IF st.current_line_words # <<>>
    THEN Append(st.lines,
                build_line(st.current_line_words, style, source_id, Len(st.lines)))
    ELSE st.lines

RECURSIVE BreakLoop(_, _, _, _, _)
BreakLoop(st, words, style, source_id, max_width) ==
    IF words = <<>> THEN st
    ELSE BreakLoop(BreakWord(st, Head(words), style, source_id, max_width),
                   Tail(words), style, source_id, max_width)

break_lines(text, style, source_id, max_width) ==
    IF text = <<>> THEN <<>>
    ELSE LET words == split_into_words(text)
         IN  IF words = <<>> THEN <<>>
             ELSE BreakFlush(BreakLoop(BreakInit, words, style, source_id, max_width),
                             style, source_id)

----------------------------------------------------------------------------
(* Inputs of a layout call *)

Left == "Left"
Right == "Right"
ChapterTitle == "ChapterTitle"
BodyText == "BodyText"

Style(fs, lh) == [font_size |-> fs, line_height |-> lh, alignment |-> "Left"]

Config(w, h, body, title, flag) ==
    [page_size |-> [width |-> w, height |-> h],
     margins |-> [top |-> 1, bottom |-> 1, inner |-> 2, outer |-> 1],
     body_style |-> body,
     chapter_title_style |-> title,
     first_chapter_on_odd_page |-> flag]

\* usable heights 10, 30 and 70 tenths against a body line of 15 tenths and
\* a title block of 44 (24 + 20) or 22 (12 + 10) tenths
WellFormedConfigs ==
    {Config(5, h, Style(1, 15), Style(tfs, 12), flag) :
        h \in {3, 5, 9}, tfs \in {1, 2}, flag \in BOOLEAN}

\* zero line width, negative font size, negative line-height multiplier
IllFormedConfigs ==
    {Config(3, 9, Style(1, 15), Style(2, 12), TRUE),
     Config(5, 9, Style(-1, 15), Style(2, 12), TRUE),
     Config(5, 9, Style(1, -15), Style(2, 12), TRUE)}

Configs == WellFormedConfigs \cup IllFormedConfigs

Titles == {<<>>, <<"a">>}
Contents == {<<" ">>, <<"a", "a", " ", "a", "a", " ", "a", "a">>}

SeqsUpTo(S, n) == UNION {[1..k -> S] : k \in 0..n}

ChapterShapes == {[title |-> t, blocks |-> bs] : t \in Titles, bs \in SeqsUpTo(Contents, MaxBlocks)}

BlockId(ci, bi) == <<"block", ci, bi>>

MakeBook(shapes) ==
    [id |-> "book",
     chapters |-> [ci \in 1..Len(shapes) |->
        [title |-> shapes[ci].title,
         blocks |-> [bi \in 1..Len(shapes[ci].blocks) |->
            [id |-> BlockId(ci, bi), content |-> shapes[ci].blocks[bi]]]]]]

Books == {MakeBook(shapes) : shapes \in SeqsUpTo(ChapterShapes, MaxChapters)}

Seeds == {1, 2}

\* Uuid::new_v4: the n-th random id drawn from the entropy `seed`
NewV4(seed, n) == <<"v4", seed, n>>

----------------------------------------------------------------------------
(* PageBuilder *)

PageBuilderNew(max_y) == [frames |-> <<>>, current_y |-> 0, max_y |-> max_y]

available_height(page) == page.max_y - page.current_y

can_fit(page, height) == available_height(page) >= height

add_frame_Prepend(page, frame, height) ==
    [page EXCEPT !.frames = <<frame>> \o @, !.current_y = @ + height]

add_frame_NoAdvance(page, frame, height) ==
    [page EXCEPT !.frames = Append(@, frame)]

add_frame(page, frame, height) ==
    [page EXCEPT !.frames = Append(@, frame), !.current_y = @ + height]

----------------------------------------------------------------------------
(* Paginator *)

calculate_content_height(cfg) ==
    (cfg.page_size.height - cfg.margins.top - cfg.margins.bottom) * Scale

calculate_content_width(cfg, page_side) ==
    LET left_margin == IF page_side = Left THEN cfg.margins.outer ELSE cfg.margins.inner
        right_margin == IF page_side = Left THEN cfg.margins.inner ELSE cfg.margins.outer
    IN  (cfg.page_size.width - left_margin - right_margin) * Scale

\* the mutable fields of a Paginator, as one value
PaginatorNew(cfg) ==
    [current_page |-> PageBuilderNew(calculate_content_height(cfg)),
     completed_pages |-> <<>>,
     page_counter |-> 0]

current_page_side_Swapped(counter) == IF counter % 2 = 0 THEN Right ELSE Left

current_page_side(counter) == IF counter % 2 = 0 THEN Left ELSE Right

finalize_current_page_NumberFromZero(P, cfg) ==
    [current_page |-> PageBuilderNew(calculate_content_height(cfg)),
     completed_pages |-> Append(P.completed_pages,
                                [page_number |-> P.page_counter,
                                 side |-> current_page_side(P.page_counter),
                                 frames |-> P.current_page.frames]),
     page_counter |-> P.page_counter + 1]

finalize_current_page(P, cfg) ==
    [current_page |-> PageBuilderNew(calculate_content_height(cfg)),
     completed_pages |-> Append(P.completed_pages,
                                [page_number |-> P.page_counter + 1,
                                 side |-> current_page_side(P.page_counter),
                                 frames |-> P.current_page.frames]),
     page_counter |-> P.page_counter + 1]

calculate_lines_height(ls, style) ==
    Len(ls) * line_height(style.font_size, style.line_height)

FrameX(cfg, page_side) == cfg.margins.inner * Scale

PlaceTitle_NeverBreak(P, cfg, ls, content_width, frame_id) ==
    LET total_height == calculate_lines_height(ls, cfg.chapter_title_style)
        height_with_spacing == total_height + cfg.chapter_title_style.font_size * Scale
        frame == [id |-> frame_id,
                  bounds |-> [x |-> FrameX(cfg, current_page_side(P.page_counter)),
                              y |-> cfg.margins.top * Scale + P.current_page.current_y,
                              width |-> content_width,
                              height |-> total_height],
                  lines |-> ls,
                  frame_type |-> ChapterTitle]
    IN  [P EXCEPT !.current_page = add_frame(@, frame, height_with_spacing)]

PlaceTitle_NoSpacing(P, cfg, ls, content_width, frame_id) ==
    LET total_height == calculate_lines_height(ls, cfg.chapter_title_style)
        height_with_spacing == total_height + cfg.chapter_title_style.font_size * Scale
        Q == IF ~can_fit(P.current_page, height_with_spacing)
             THEN finalize_current_page(P, cfg) ELSE P
        frame == [id |-> frame_id,
                  bounds |-> [x |-> FrameX(cfg, current_page_side(Q.page_counter)),
                              y |-> cfg.margins.top * Scale + Q.current_page.current_y,
                              width |-> content_width,
                              height |-> total_height],
                  lines |-> ls,
                  frame_type |-> ChapterTitle]
    IN  [Q EXCEPT !.current_page = add_frame(@, frame, total_height)]

PlaceTitle_AlwaysBreak(P, cfg, ls, content_width, frame_id) ==
    LET total_height == calculate_lines_height(ls, cfg.chapter_title_style)
        height_with_spacing == total_height + cfg.chapter_title_style.font_size * Scale
        Q == finalize_current_page(P, cfg)
        frame == [id |-> frame_id,
                  bounds |-> [x |-> FrameX(cfg, current_page_side(Q.page_counter)),
                              y |-> cfg.margins.top * Scale + Q.current_page.current_y,
                              width |-> content_width,
                              height |-> total_height],
                  lines |-> ls,
                  frame_type |-> ChapterTitle]
    IN  [Q EXCEPT !.current_page = add_frame(@, frame, height_with_spacing)]

PlaceTitle_HeightWithSpacing(P, cfg, ls, content_width, frame_id) ==
    LET total_height == calculate_lines_height(ls, cfg.chapter_title_style)
        height_with_spacing == total_height + cfg.chapter_title_style.font_size * Scale
        Q == IF ~can_fit(P.current_page, height_with_spacing)
             THEN finalize_current_page(P, cfg) ELSE P
        frame == [id |-> frame_id,
                  bounds |-> [x |-> FrameX(cfg, current_page_side(Q.page_counter)),
                              y |-> cfg.margins.top * Scale + Q.current_page.current_y,
                              width |-> content_width,
                              height |-> height_with_spacing],
                  lines |-> ls,
                  frame_type |-> ChapterTitle]
    IN  [Q EXCEPT !.current_page = add_frame(@, frame, height_with_spacing)]

\* add_chapter_title after break_lines returned a non-empty `lines`
PlaceTitle(P, cfg, ls, content_width, frame_id) ==
    LET total_height == calculate_lines_height(ls, cfg.chapter_title_style)
        height_with_spacing == total_height + cfg.chapter_title_style.font_size * Scale
        Q == IF ~can_fit(P.current_page, height_with_spacing)
             THEN finalize_current_page(P, cfg) ELSE P
        frame == [id |-> frame_id,
                  bounds |-> [x |-> FrameX(cfg, current_page_side(Q.page_counter)),
                              y |-> cfg.margins.top * Scale + Q.current_page.current_y,
                              width |-> content_width,
                              height |-> total_height],
                  lines |-> ls,
                  frame_type |-> ChapterTitle]
    IN  [Q EXCEPT !.current_page = add_frame(@, frame, height_with_spacing)]

\* the for loop of add_lines_to_pages that counts the lines that fit
RECURSIVE CountFit(_, _, _, _, _)
CountFit(page, n, lh, i, acc) ==
    IF i < n /\ can_fit(page, acc.accumulated_height + lh)
    THEN CountFit(page, n, lh, i + 1,
                  [lines_that_fit |-> i + 1,
                   accumulated_height |-> acc.accumulated_height + lh])
    ELSE acc

LinesThatFit_OneLine(page, ls, cfg) ==
    CountFit(page, IF Len(ls) > 1 THEN 1 ELSE Len(ls),
             line_height(cfg.body_style.font_size, cfg.body_style.line_height),
             0, [lines_that_fit |-> 0, accumulated_height |-> 0])

LinesThatFit(page, ls, cfg) ==
    CountFit(page, Len(ls),
             line_height(cfg.body_style.font_size, cfg.body_style.line_height),
             0, [lines_that_fit |-> 0, accumulated_height |-> 0])

\* lines.drain(..lines_that_fit): the lines taken, and what stays in `lines`
DrainedLines(ls, n) == SubSeq(ls, 1, n)

RemainingLines_SkipOne(ls, n) == SubSeq(ls, n + 2, Len(ls))

RemainingLines(ls, n) == SubSeq(ls, n + 1, Len(ls))

\* metadata taken from the Paginator as it is before the last page is finalized
RenderTreeOf_StaleCount(P, bk) ==
    [book_id |-> bk.id,
     pages |-> P.completed_pages,
     metadata |-> [total_pages |-> Len(completed_pages),
                   total_chapters |-> Len(bk.chapters)]]

RenderTreeOf(P, bk) ==
    [book_id |-> bk.id,
     pages |-> P.completed_pages,
     metadata |-> [total_pages |-> Len(P.completed_pages),
                   total_chapters |-> Len(bk.chapters)]]

NoResult == [kind |-> "none"]
Ok(tree) == [kind |-> "ok", tree |-> tree]

Pag == [current_page |-> current_page,
        completed_pages |-> completed_pages,
        page_counter |-> page_counter]

SetPaginatorInit ==
    /\ current_page = PaginatorNew(config).current_page
    /\ completed_pages = PaginatorNew(config).completed_pages
    /\ page_counter = PaginatorNew(config).page_counter

SetPaginator(P) ==
    /\ current_page' = P.current_page
    /\ completed_pages' = P.completed_pages
    /\ page_counter' = P.page_counter

----------------------------------------------------------------------------
(* bk_format: strings.  A line is a sequence of one-character strings; the *)
(* argument of parse_string is modelled by the lines content.lines() yields *)

\* str::trim_start, str::trim_end, str::trim
RECURSIVE trim_start(_)
trim_start(s) ==
    IF s # <<>> /\ Head(s) \in Whitespace THEN trim_start(Tail(s)) ELSE s

RECURSIVE trim_end(_)
trim_end(s) ==
    IF s # <<>> /\ s[Len(s)] \in Whitespace
    THEN trim_end(SubSeq(s, 1, Len(s) - 1))
    ELSE s

trim(s) == trim_end(trim_start(s))

\* str::starts_with, str::strip_prefix (None is <<>>, Some(v) is <<v>>)
starts_with(s, prefix) ==
    Len(s) >= Len(prefix) /\ SubSeq(s, 1, Len(prefix)) = prefix

None == <<>>
Some(v) == <<v>>
unwrap(o) == o[1]

strip_prefix(s, prefix) ==
    IF starts_with(s, prefix) THEN Some(SubSeq(s, Len(prefix) + 1, Len(s)))
    ELSE None

\* str::splitn(2, c): the text before the first c and the text after it
RECURSIVE FindChar(_, _, _)
FindChar(s, c, i) ==
    IF i > Len(s) THEN 0
    ELSE IF s[i] = c THEN i
    ELSE FindChar(s, c, i + 1)

splitn2(s, c) ==
    LET i == FindChar(s, c, 1)
    IN  IF i = 0 THEN <<s>>
        ELSE <<SubSeq(s, 1, i - 1), SubSeq(s, i + 1, Len(s))>>

\* str::trim_start_matches(c)
RECURSIVE trim_start_matches(_, _)
trim_start_matches(s, c) ==
    IF s # <<>> /\ Head(s) = c THEN trim_start_matches(Tail(s), c) ELSE s

\* Uuid::parse_str on the simple (32 digits) and the hyphenated (8-4-4-4-12)
\* forms; the braced and urn forms are not among the inputs
HexDigits == {"0", "1", "2", "3", "4", "5", "6", "7", "8", "9",
              "a", "b", "c", "d", "e", "f"}
HyphenAt == {9, 14, 19, 24}

IsHex(s) == \A i \in DOMAIN s : s[i] \in HexDigits

RECURSIVE DropHyphens(_, _)
DropHyphens(s, i) ==
    IF i > Len(s) THEN <<>>
    ELSE IF i \in HyphenAt THEN DropHyphens(s, i + 1)
    ELSE <<s[i]>> \o DropHyphens(s, i + 1)

Uuid_parse_str(s) ==
    IF Len(s) = 32 /\ IsHex(s) THEN Some(<<"uuid", s>>)
    ELSE IF /\ Len(s) = 36
            /\ \A i \in HyphenAt : s[i] = "-"
            /\ IsHex(DropHyphens(s, 1))
         THEN Some(<<"uuid", DropHyphens(s, 1)>>)
    ELSE None

\* the literals of parser.rs
ChapterPrefix == <<"#", "c", "h", "a", "p", "t", "e", "r", ":">>
TitlePrefix == <<"@", "t", "i", "t", "l", "e", ":">>
AuthorPrefix == <<"@", "a", "u", "t", "h", "o", "r", ":">>
IdPrefix == <<"@", "i", "d", ":">>
DedicationPrefix == <<"@", "d", "e", "d", "i", "c", "a", "t", "i", "o", "n", ":">>
PagePrefix == <<"@", "p", "a", "g", "e", ":">>
FieldTitle == <<"t", "i", "t", "l", "e">>
FieldAuthor == <<"a", "u", "t", "h", "o", "r">>
FieldId == <<"i", "d">>
FieldDedication == <<"d", "e", "d", "i", "c", "a", "t", "i", "o", "n">>

----------------------------------------------------------------------------
(* bk_format: BkParser *)

\* BkParseError values
MissingMetadata_TitleOnly(field) == [kind |-> "MissingMetadata", field |-> "title"]

MissingMetadata(field) == [kind |-> "MissingMetadata", field |-> field]
InvalidUuid == [kind |-> "InvalidUuid"]
MalformedMetadata(line) == [kind |-> "MalformedMetadata", line |-> line]
MissingChapterTitle(line) == [kind |-> "MissingChapterTitle", line |-> line]
BlockBeforeChapter(line) == [kind |-> "BlockBeforeChapter", line |-> line]
NoChapters == [kind |-> "NoChapters"]
DuplicateMetadata(field, line) ==
    [kind |-> "DuplicateMetadata", field |-> field, line |-> line]

\* Result<(), BkParseError> of a method of BkParser, with the parser it leaves
Fine(p) == [ok |-> TRUE, parser |-> p]
Fail(p, e) == [ok |-> FALSE, parser |-> p, err |-> e]

\* Result<Book, BkParseError>
BkOk(b) == [kind |-> "ok", book |-> b]
BkErr(e) == [kind |-> "err", err |-> e]

BkMetadataDefault == [title |-> None, author |-> None, id |-> None,
                      dedication |-> None]

BkChapterNew(title, order) == [title |-> title, order |-> order, blocks |-> <<>>]

BkParserNew ==
    [state |-> "ReadingMetadata",
     line_number |-> 0,
     metadata |-> BkMetadataDefault,
     chapters |-> <<>>,
     current_chapter |-> None,
     current_block |-> <<>>]

accumulate_content(p, line) ==
    [p EXCEPT !.current_block =
        IF @ # <<>> THEN @ \o <<"\n">> \o line ELSE line]

finish_current_block_PushEmpty(p) ==
    IF p.current_chapter # None
    THEN [p EXCEPT
            !.current_chapter =
                Some([unwrap(@) EXCEPT !.blocks = Append(@, trim(p.current_block))]),
            !.current_block = <<>>]
    ELSE p

finish_current_block(p) ==
    IF p.current_block # <<>> /\ p.current_chapter # None
    THEN [p EXCEPT
            !.current_chapter =
                Some([unwrap(@) EXCEPT !.blocks = Append(@, trim(p.current_block))]),
            !.current_block = <<>>]
    ELSE p

finish_current_chapter_PushDefault(p) ==
    [p EXCEPT !.chapters =
                  Append(@, IF p.current_chapter # None THEN unwrap(p.current_chapter)
                            ELSE BkChapterNew(<<>>, Len(p.chapters))),
              !.current_chapter = None]

finish_current_chapter_Prepend(p) ==
    IF p.current_chapter # None
    THEN [p EXCEPT !.chapters = <<unwrap(p.current_chapter)>> \o @,
                   !.current_chapter = None]
    ELSE p

finish_current_chapter(p) ==
    IF p.current_chapter # None
    THEN [p EXCEPT !.chapters = Append(@, unwrap(p.current_chapter)),
                   !.current_chapter = None]
    ELSE p

SetField_Overwrite(p, field, value) ==
    Fine([p EXCEPT !.metadata[field] = Some(value)])

SetField(p, field, value) ==
    IF p.metadata[field] # None
    THEN Fail(p, DuplicateMetadata(field, p.line_number))
    ELSE Fine([p EXCEPT !.metadata[field] = Some(value)])

parse_metadata(p, line) ==
    LET parts == splitn2(line, ":")
    IN  IF Len(parts) # 2 THEN Fail(p, MalformedMetadata(p.line_number))
        ELSE LET field == trim(trim_start_matches(parts[1], "@"))
                 value == trim(parts[2])
             IN  IF field = FieldTitle THEN SetField(p, "title", value)
                 ELSE IF field = FieldAuthor THEN SetField(p, "author", value)
                 ELSE IF field = FieldId THEN
                     IF p.metadata.id # None
                     THEN Fail(p, DuplicateMetadata("id", p.line_number))
                     ELSE IF Uuid_parse_str(value) = None THEN Fail(p, InvalidUuid)
                     ELSE Fine([p EXCEPT !.metadata.id = Uuid_parse_str(value)])
                 ELSE IF field = FieldDedication
                      THEN SetField(p, "dedication", value)
                 ELSE Fine(p)

parse_chapter_header(p, line) ==
    LET q == finish_current_chapter(finish_current_block(p))
        rest == strip_prefix(line, ChapterPrefix)
    IN  IF rest = None THEN Fail(q, MissingChapterTitle(q.line_number))
        ELSE IF trim(unwrap(rest)) = <<>>
             THEN Fail(q, MissingChapterTitle(q.line_number))
        ELSE Fine([q EXCEPT
                     !.current_chapter =
                         Some(BkChapterNew(trim(unwrap(rest)), Len(q.chapters))),
                     !.state = "ReadingChapterHeader"])

parse_block_marker(p, line) ==
    IF p.current_chapter = None
    THEN Fail(p, BlockBeforeChapter(p.line_number))
    ELSE Fine([finish_current_block(p) EXCEPT !.state = "ReadingBlock"])

IsBlockMarker(trimmed) == starts_with(trimmed, PagePrefix)

parse_line(p0, line) ==
    LET p == [p0 EXCEPT !.line_number = @ + 1]
        trimmed == trim(line)
    IN  IF trimmed = <<>> THEN Fine(p)
        ELSE IF starts_with(trimmed, ChapterPrefix)
             THEN parse_chapter_header(p, trimmed)
        ELSE IF starts_with(trimmed, <<"@">>) THEN
            IF \/ p.state = "ReadingMetadata"
               \/ starts_with(trimmed, TitlePrefix)
               \/ starts_with(trimmed, AuthorPrefix)
               \/ starts_with(trimmed, IdPrefix)
               \/ starts_with(trimmed, DedicationPrefix)
            THEN parse_metadata(p, trimmed)
            ELSE IF IsBlockMarker(trimmed) THEN parse_block_marker(p, trimmed)
            ELSE Fine(accumulate_content(p, line))
        ELSE Fine(accumulate_content(p, line))

\* generate_chapter_id: Uuid::new_v5 of the book id and "{order}-{title}"
generate_chapter_id(book_id, order, title) == <<"v5", book_id, <<order, title>>>>

\* the Vec<Block> of one chapter; the id is generate_block_id(&chapter_id, idx),
\* a deterministic value of its two arguments; idx counts from 0
BlocksOf(chapter_id, blocks) ==
    [i \in DOMAIN blocks |->
        [id |-> <<"v5", chapter_id, <<i - 1>>>>,
         content |-> blocks[i],
         order |-> i - 1,
         block_type |-> "Page"]]

\* finalize_with_timestamps; created_at and updated_at are copied into the
\* Book and its chapters unchanged and are left out
finalize_with_timestamps(p0, new_v4) ==
    LET p == finish_current_chapter(finish_current_block(p0))
        book_id == IF p.metadata.id # None THEN unwrap(p.metadata.id) ELSE new_v4
    IN  IF p.metadata.title = None THEN BkErr(MissingMetadata("title"))
        ELSE IF p.metadata.author = None THEN BkErr(MissingMetadata("author"))
        ELSE IF p.chapters = <<>> THEN BkErr(NoChapters)
        ELSE BkOk([id |-> book_id,
                   title |-> unwrap(p.metadata.title),
                   author |-> unwrap(p.metadata.author),
                   dedication |-> p.metadata.dedication,
                   chapters |->
                       [i \in DOMAIN p.chapters |->
                           LET c == p.chapters[i]
                               chapter_id == generate_chapter_id(book_id, c.order, c.title)
                           IN  [id |-> chapter_id,
                                title |-> c.title,
                                blocks |-> BlocksOf(chapter_id, c.blocks),
                                order |-> c.order]]])

BkP == [state |-> state, line_number |-> line_number, metadata |-> metadata,
        chapters |-> chapters, current_chapter |-> current_chapter,
        current_block |-> current_block]

SetBkParser(p) ==
    /\ state' = p.state
    /\ line_number' = p.line_number
    /\ metadata' = p.metadata
    /\ chapters' = p.chapters
    /\ current_chapter' = p.current_chapter
    /\ current_block' = p.current_block

\* no parse_string call in progress
BkIdle ==
    /\ bk_pc = "idle"
    /\ content = <<>>
    /\ state = BkParserNew.state
    /\ line_number = BkParserNew.line_number
    /\ metadata = BkParserNew.metadata
    /\ chapters = BkParserNew.chapters
    /\ current_chapter = BkParserNew.current_chapter
    /\ current_block = BkParserNew.current_block
    /\ parse_result = NoResult

----------------------------------------------------------------------------
(* State after layout_book_with_metrics has built its Paginator *)

LBIdle ==
    /\ lb_pc = "idle"
    /\ lb_text = <<>>
    /\ lb_max_width = 0
    /\ lb_style = Style(1, 15)
    /\ lb_words = <<>>
    /\ lb_lines = <<>>
    /\ current_line_words = <<>>
    /\ current_line_width = 0

Init ==
    /\ config \in Configs
    /\ book \in Books
    /\ uuid_seed \in Seeds
    /\ uuid_calls = 0
    /\ pc = "chapters"
    /\ chapter_index = 1
    /\ block_index = 1
    /\ lines = <<>>
    /\ SetPaginatorInit
    /\ result = NoResult
    /\ first_result = NoResult
    /\ LBIdle
    /\ BkIdle

----------------------------------------------------------------------------
(* Paginator::paginate, one step per loop iteration *)

\* head of the for loop of paginate: the forced page break before a chapter
NextChapter_BreakOnBothSides ==
    /\ pc = "chapters"
    /\ chapter_index <= Len(book.chapters)
    /\ SetPaginator(IF /\ chapter_index > 1
                       /\ config.first_chapter_on_odd_page
                    THEN finalize_current_page(Pag, config)
                    ELSE Pag)
    /\ pc' = "title"
    /\ UNCHANGED <<config, book, chapter_index, block_index, lines, uuid_seed,
                   uuid_calls, result, first_result, lbVars, bkVars>>

NextChapter ==
    /\ pc = "chapters"
    /\ chapter_index <= Len(book.chapters)
    /\ SetPaginator(IF /\ chapter_index > 1
                       /\ config.first_chapter_on_odd_page
                       /\ page_counter % 2 = 0
                    THEN finalize_current_page(Pag, config)
                    ELSE Pag)
    /\ pc' = "title"
    /\ UNCHANGED <<config, book, chapter_index, block_index, lines, uuid_seed,
                   uuid_calls, result, first_result, lbVars, bkVars>>

\* add_chapter_title, called first by paginate_chapter
AddChapterTitle ==
    /\ pc = "title"
    /\ LET title == book.chapters[chapter_index].title
           page_side == current_page_side(page_counter)
           content_width == calculate_content_width(config, page_side)
           source_id == NewV4(uuid_seed, uuid_calls)
           ls == break_lines(title, config.chapter_title_style, source_id, content_width)
       IN  IF ls = <<>>
           THEN /\ uuid_calls' = uuid_calls + 1
                /\ UNCHANGED <<current_page, completed_pages, page_counter>>
           ELSE /\ uuid_calls' = uuid_calls + 2
                /\ SetPaginator(PlaceTitle(Pag, config, ls, content_width,
                                           NewV4(uuid_seed, uuid_calls + 1)))
    /\ pc' = "blocks"
    /\ block_index' = 1
    /\ UNCHANGED <<config, book, chapter_index, lines, uuid_seed, result,
                   first_result, lbVars, bkVars>>

\* paginate_block up to the call of add_lines_to_pages
PaginateBlock ==
    /\ pc = "blocks"
    /\ block_index <= Len(book.chapters[chapter_index].blocks)
    /\ LET block == book.chapters[chapter_index].blocks[block_index]
           page_side == current_page_side(page_counter)
           content_width == calculate_content_width(config, page_side)
           ls == break_lines(block.content, config.body_style, block.id, content_width)
       IN  IF ls = <<>>
           THEN /\ block_index' = block_index + 1
                /\ UNCHANGED <<pc, lines>>
           ELSE /\ lines' = ls
                /\ pc' = "lines"
                /\ UNCHANGED block_index
    /\ UNCHANGED <<config, book, chapter_index, current_page, completed_pages,
                   page_counter, uuid_seed, uuid_calls, result, first_result, lbVars, bkVars>>

\* one iteration of the while loop of add_lines_to_pages.  Finalizing an
\* empty page because no line fits on it is the only step of the call that
\* can repeat without consuming input: completed_pages then grows until the
\* allocation of Vec::push fails and the process aborts.  MaxPages is the
\* number of pages at which that happens in the model.
AddLinesToPages ==
    /\ pc = "lines"
    /\ lines # <<>>
    /\ LET page_side == current_page_side(page_counter)
           content_width == calculate_content_width(config, page_side)
           fit == LinesThatFit(current_page, lines, config)
       IN  IF fit.lines_that_fit = 0
           THEN IF current_page.frames = <<>> /\ page_counter >= MaxPages
                THEN /\ pc' = "aborted"
                     /\ UNCHANGED <<lines, block_index, uuid_calls, current_page,
                                    completed_pages, page_counter>>
                ELSE /\ SetPaginator(finalize_current_page(Pag, config))
                     /\ UNCHANGED <<lines, pc, block_index, uuid_calls>>
           ELSE LET fitting_lines == DrainedLines(lines, fit.lines_that_fit)
                    rest == RemainingLines(lines, fit.lines_that_fit)
                    frame == [id |-> NewV4(uuid_seed, uuid_calls),
                              bounds |-> [x |-> FrameX(config, page_side),
                                          y |-> config.margins.top * Scale
                                                + current_page.current_y,
                                          width |-> content_width,
                                          height |-> fit.accumulated_height],
                              lines |-> fitting_lines,
                              frame_type |-> BodyText]
                    P == [Pag EXCEPT !.current_page =
                              add_frame(@, frame, fit.accumulated_height)]
                IN  /\ uuid_calls' = uuid_calls + 1
                    /\ lines' = rest
                    /\ SetPaginator(IF rest # <<>>
                                    THEN finalize_current_page(P, config) ELSE P)
                    /\ IF rest = <<>>
                       THEN pc' = "blocks" /\ block_index' = block_index + 1
                       ELSE UNCHANGED <<pc, block_index>>
    /\ UNCHANGED <<config, book, chapter_index, uuid_seed, result, first_result,
                   lbVars, bkVars>>

\* end of the for loop of paginate_chapter
EndChapter ==
    /\ pc = "blocks"
    /\ block_index > Len(book.chapters[chapter_index].blocks)
    /\ chapter_index' = chapter_index + 1
    /\ pc' = "chapters"
    /\ UNCHANGED <<config, book, block_index, lines, current_page, completed_pages,
                   page_counter, uuid_seed, uuid_calls, result, first_result, lbVars, bkVars>>

Finish_AlwaysFinalize ==
    /\ pc = "chapters"
    /\ chapter_index > Len(book.chapters)
    /\ LET P == finalize_current_page(Pag, config)
       IN  /\ SetPaginator(P)
           /\ result' = Ok(RenderTreeOf(P, book))
    /\ pc' = "done"
    /\ UNCHANGED <<config, book, chapter_index, block_index, lines, uuid_seed,
                   uuid_calls, first_result, lbVars, bkVars>>

\* paginate after its for loop: the last page and the returned RenderTree
Finish ==
    /\ pc = "chapters"
    /\ chapter_index > Len(book.chapters)
    /\ LET P == IF current_page.frames # <<>>
                THEN finalize_current_page(Pag, config) ELSE Pag
       IN  /\ SetPaginator(P)
           /\ result' = Ok(RenderTreeOf(P, book))
    /\ pc' = "done"
    /\ UNCHANGED <<config, book, chapter_index, block_index, lines, uuid_seed,
                   uuid_calls, first_result, lbVars, bkVars>>

Next == NextChapter \/ AddChapterTitle \/ PaginateBlock \/ AddLinesToPages
        \/ EndChapter \/ Finish

Spec == Init /\ [][Next]_vars

\* the call runs on one call stack with no suspension point: it takes its
\* next step whenever it has one.  Books of at most one chapter.
InitFair == Init /\ Len(book.chapters) <= 1 /\ uuid_seed = 1

FairSpec == InitFair /\ [][Next]_vars /\ WF_vars(Next)

----------------------------------------------------------------------------
(* LineBreaker::break_lines on its own, one step per word *)

LBTexts == TextsUpTo(MaxTextLen)
LBMaxWidths == {0, 6, 12, 18, 30}
LBStyles == {Style(1, 15), Style(2, 12)}
LBSource == "source"

PagIdle ==
    /\ config = Config(5, 9, Style(1, 15), Style(2, 12), TRUE)
    /\ book = MakeBook(<<>>)
    /\ uuid_seed = 1
    /\ uuid_calls = 0
    /\ pc = "idle"
    /\ chapter_index = 1
    /\ block_index = 1
    /\ lines = <<>>
    /\ SetPaginatorInit
    /\ result = NoResult
    /\ first_result = NoResult

InitLB ==
    /\ PagIdle
    /\ BkIdle
    /\ lb_pc = "start"
    /\ lb_text \in LBTexts
    /\ lb_max_width \in LBMaxWidths
    /\ lb_style \in LBStyles
    /\ lb_words = <<>>
    /\ lb_lines = BreakInit.lines
    /\ current_line_words = BreakInit.current_line_words
    /\ current_line_width = BreakInit.current_line_width

LBState == [lines |-> lb_lines,
            current_line_words |-> current_line_words,
            current_line_width |-> current_line_width]

\* the early returns of break_lines and the tokenization
LBSplit ==
    /\ lb_pc = "start"
    /\ IF lb_text = <<>> \/ split_into_words(lb_text) = <<>>
       THEN lb_pc' = "done" /\ lb_words' = <<>>
       ELSE lb_pc' = "loop" /\ lb_words' = split_into_words(lb_text)
    /\ UNCHANGED <<pagVars, bkVars, lb_text, lb_max_width, lb_style, lb_lines,
                   current_line_words, current_line_width>>

\* one iteration of the for loop
LBWord ==
    /\ lb_pc = "loop"
    /\ lb_words # <<>>
    /\ LET st == BreakWord(LBState, Head(lb_words), lb_style, LBSource, lb_max_width)
       IN  /\ lb_lines' = st.lines
           /\ current_line_words' = st.current_line_words
           /\ current_line_width' = st.current_line_width
    /\ lb_words' = Tail(lb_words)
    /\ UNCHANGED <<pagVars, bkVars, lb_pc, lb_text, lb_max_width, lb_style>>

\* the final line and the return
LBFlush ==
    /\ lb_pc = "loop"
    /\ lb_words = <<>>
    /\ lb_lines' = BreakFlush(LBState, lb_style, LBSource)
    /\ lb_pc' = "done"
    /\ UNCHANGED <<pagVars, bkVars, lb_text, lb_max_width, lb_style, lb_words,
                   current_line_words, current_line_width>>

NextLB == LBSplit \/ LBWord \/ LBFlush

SpecLB == InitLB /\ [][NextLB]_vars

----------------------------------------------------------------------------
(* layout_book_with_metrics called a second time on the same book and      *)
(* configuration: a new Paginator, new entropy for Uuid::new_v4            *)

LayoutAgain ==
    /\ pc = "done"
    /\ first_result = NoResult
    /\ first_result' = result
    /\ result' = NoResult
    /\ uuid_seed' \in Seeds
    /\ uuid_calls' = 0
    /\ SetPaginator(PaginatorNew(config))
    /\ pc' = "chapters"
    /\ chapter_index' = 1
    /\ block_index' = 1
    /\ lines' = <<>>
    /\ UNCHANGED <<config, book, lbVars, bkVars>>

NextTwice == Next \/ LayoutAgain

SpecTwice == Init /\ [][NextTwice]_vars

----------------------------------------------------------------------------
(* BkParser::parse_string on its own, one step per line *)

Line_Title == TitlePrefix \o <<" ", "a">>
Line_Title_b == TitlePrefix \o <<" ", "b">>
Line_Author == AuthorPrefix \o <<" ", "a">>
Line_Id == IdPrefix \o <<" ",
    "5", "5", "0", "e", "8", "4", "0", "0", "-", "e", "2", "9", "b", "-",
    "4", "1", "d", "4", "-", "a", "0", "0", "9", "-",
    "4", "2", "6", "6", "5", "5", "4", "4", "0", "0", "0", "0">>
Line_IdBad == IdPrefix \o <<" ", "b">>
Line_Dedication == DedicationPrefix \o <<" ", "a">>
Line_Note == <<"@", "b">>
Line_Chapter_a == ChapterPrefix \o <<" ", "a">>
Line_Chapter_b == ChapterPrefix \o <<" ", "b", " ">>
Line_ChapterNoTitle == ChapterPrefix \o <<" ">>
Line_Page == PagePrefix
Line_Block == <<"@", "b", "l", "o", "c", "k", ":">>
Line_Text_a == <<" ", "a", " ">>
Line_Text_b == <<"b">>
Line_Blank == <<>>

\* what the input starts with
BkPreambles ==
    {<<>>,
     <<Line_Title>>,
     <<Line_Author>>,
     <<Line_Title, Line_Author>>,
     <<Line_Blank, Line_Title, Line_Author, Line_Id, Line_Dedication>>,
     <<Line_Title, Line_Author, Line_IdBad>>,
     <<Line_Title, Line_Note, Line_Author, Line_Author>>,
     <<Line_Title, Line_Author, Line_Id, Line_Blank, Line_Id>>,
     <<Line_Title, Line_Author, Line_Chapter_a, Line_Page>>}

\* and the lines that follow
BkLines == {Line_Chapter_a, Line_Chapter_b, Line_ChapterNoTitle, Line_Page,
            Line_Block, Line_Text_a, Line_Text_b, Line_Blank, Line_Title_b,
            Line_Dedication}

BkInputs == {pre \o body : pre \in BkPreambles, body \in SeqsUpTo(BkLines, MaxBkLines)}

InitBk ==
    /\ PagIdle
    /\ LBIdle
    /\ bk_pc = "lines"
    /\ content \in BkInputs
    /\ state = BkParserNew.state
    /\ line_number = BkParserNew.line_number
    /\ metadata = BkParserNew.metadata
    /\ chapters = BkParserNew.chapters
    /\ current_chapter = BkParserNew.current_chapter
    /\ current_block = BkParserNew.current_block
    /\ parse_result = NoResult

\* one iteration of the for loop of parse_string; `?` returns the error
ParseLine ==
    /\ bk_pc = "lines"
    /\ line_number < Len(content)
    /\ LET r == parse_line(BkP, content[line_number + 1])
       IN  /\ SetBkParser(r.parser)
           /\ IF r.ok
              THEN UNCHANGED <<bk_pc, parse_result>>
              ELSE bk_pc' = "done" /\ parse_result' = BkErr(r.err)
    /\ UNCHANGED <<pagVars, lbVars, content>>

\* the end of the input: finalize_with_timestamps and the return
Finalize ==
    /\ bk_pc = "lines"
    /\ line_number = Len(content)
    /\ SetBkParser(finish_current_chapter(finish_current_block(BkP)))
    /\ parse_result' = finalize_with_timestamps(BkP, NewV4(uuid_seed, uuid_calls))
    /\ bk_pc' = "done"
    /\ UNCHANGED <<pagVars, lbVars, content>>

NextBk == ParseLine \/ Finalize

SpecBk == InitBk /\ [][NextBk]_vars

----------------------------------------------------------------------------
(* Properties of LineBreaker::break_lines (SpecLB) *)

Range(seq) == {seq[i] : i \in DOMAIN seq}

LineText(line) == line.fragments[1].text
WordsOfLine(line) == split_into_words(LineText(line))
InputWords == split_into_words(lb_text)
Oversized(word) == measure_text(word, lb_style.font_size) > lb_max_width
LBDone == lb_pc = "done"

\* C8: for a non-empty text and a max width at least the width of the widest
\* word, no emitted line measures more than max width
C8_LinesWithinMaxWidth ==
    (/\ LBDone
     /\ lb_text # <<>>
     /\ \A w \in Range(InputWords) : ~Oversized(w))
    => \A i \in DOMAIN lb_lines :
          measure_text(LineText(lb_lines[i]), lb_style.font_size) <= lb_max_width

\* a text of three words was wrapped into more than one line, none too wide
C8_Witness ==
    /\ LBDone
    /\ Len(InputWords) >= 3
    /\ \A w \in Range(InputWords) : ~Oversized(w)
    /\ Len(lb_lines) >= 2
    /\ \E i \in DOMAIN lb_lines : Len(WordsOfLine(lb_lines[i])) >= 2

\* C9: the words of the emitted lines, in line order, are exactly the
\* whitespace-separated words of the input, and inside a line the words are
\* separated by exactly one space
C9_WordsPreserved ==
    LBDone =>
       /\ Concat([i \in DOMAIN lb_lines |-> WordsOfLine(lb_lines[i])]) = InputWords
       /\ \A i \in DOMAIN lb_lines :
             LET t == LineText(lb_lines[i])
             IN  /\ \A k \in DOMAIN t : t[k] \in Whitespace => t[k] = " "
                 /\ t # <<>> => (t[1] # " " /\ t[Len(t)] # " ")
                 /\ \A k \in 1..(Len(t) - 1) : ~(t[k] = " " /\ t[k + 1] = " ")

\* a text with a run of two whitespace characters between words, one of them
\* a newline, was wrapped into more than one line
C9_Witness ==
    /\ LBDone
    /\ \E k \in 1..(Len(lb_text) - 1) :
          lb_text[k] \in Whitespace /\ lb_text[k + 1] = "\n"
    /\ Len(InputWords) >= 3
    /\ Len(lb_lines) >= 2
    /\ \E i \in DOMAIN lb_lines : Len(WordsOfLine(lb_lines[i])) >= 2

\* C10: a word wider than max width is emitted on exactly one line, alone:
\* every line that holds an oversized word holds that word only, there are as
\* many such lines as oversized words in the input, and no line is empty
C10_OversizedWordAlone ==
    LBDone =>
       /\ \A i \in DOMAIN lb_lines :
             LET ws == WordsOfLine(lb_lines[i])
             IN  /\ ws # <<>>
                 /\ (\E j \in DOMAIN ws : Oversized(ws[j])) => LineText(lb_lines[i]) = ws[1]
       /\ Cardinality({i \in DOMAIN lb_lines :
                          \E j \in DOMAIN WordsOfLine(lb_lines[i]) :
                             Oversized(WordsOfLine(lb_lines[i])[j])})
          = Cardinality({k \in DOMAIN InputWords : Oversized(InputWords[k])})

\* an oversized word between two words that fit, and an oversized first word
C10_Witness ==
    /\ LBDone
    /\ Len(InputWords) = 3
    /\ ~Oversized(InputWords[1])
    /\ Oversized(InputWords[2])
    /\ ~Oversized(InputWords[3])
    /\ Len(lb_lines) = 3

\* C11: the empty string and a string of whitespace only yield no line at
\* all, for every max width and style
C11_BlankTextNoLines ==
    (LBDone /\ \A k \in DOMAIN lb_text : lb_text[k] \in Whitespace)
    => lb_lines = <<>>

\* break_lines returned for a text of several whitespace characters
C11_Witness ==
    /\ LBDone
    /\ Len(lb_text) >= 2
    /\ \A k \in DOMAIN lb_text : lb_text[k] \in Whitespace
    /\ \E k \in DOMAIN lb_text : lb_text[k] = " "
    /\ lb_lines = <<>>

\* the for loop of break_lines is about to append a word that makes the
\* current line exactly max width wide
ExactFit ==
    /\ lb_pc = "loop"
    /\ lb_words # <<>>
    /\ current_line_words # <<>>
    /\ current_line_width + measure_char(" ", lb_style.font_size)
       + measure_text(Head(lb_words), lb_style.font_size) = lb_max_width

\* C12: a word that brings the current line to exactly max width is appended
\* to the current line and no line is started
C12_FitIsInclusive ==
    [][ExactFit =>
          /\ current_line_words' = Append(current_line_words, Head(lb_words))
          /\ current_line_width' = lb_max_width
          /\ lb_lines' = lb_lines]_vars

\* break_lines returned a line of two words or more that is exactly max
\* width wide
C12_Witness ==
    /\ LBDone
    /\ \E i \in DOMAIN lb_lines :
          /\ Len(WordsOfLine(lb_lines[i])) >= 2
          /\ measure_text(LineText(lb_lines[i]), lb_style.font_size) = lb_max_width

----------------------------------------------------------------------------
(* Properties of a layout call (Spec, FairSpec, SpecTwice) *)

PositiveConfig ==
    /\ config.page_size.width > 0 /\ config.page_size.height > 0
    /\ config.margins.top > 0 /\ config.margins.bottom > 0
    /\ config.margins.inner > 0 /\ config.margins.outer > 0
    /\ config.body_style.font_size > 0 /\ config.body_style.line_height > 0
    /\ config.chapter_title_style.font_size > 0
    /\ config.chapter_title_style.line_height > 0

IllFormedConfig ==
    \/ config.page_size.width - config.margins.inner - config.margins.outer <= 0
    \/ config.body_style.font_size < 0 \/ config.body_style.line_height < 0
    \/ config.chapter_title_style.font_size < 0
    \/ config.chapter_title_style.line_height < 0

WellFormedConfig == PositiveConfig /\ ~IllFormedConfig

\* one title line with its trailing spacing, and one body line, fit on an
\* empty page
RoomyConfig ==
    /\ WellFormedConfig
    /\ line_height(config.chapter_title_style.font_size,
                   config.chapter_title_style.line_height)
       + config.chapter_title_style.font_size * Scale
       <= calculate_content_height(config)
    /\ line_height(config.body_style.font_size, config.body_style.line_height)
       <= calculate_content_height(config)

\* add_chapter_title has just returned for a chapter with a non-empty title:
\* its frame is the last frame of the page under construction
TitleJustPlaced ==
    /\ pc = "blocks"
    /\ block_index = 1
    /\ split_into_words(book.chapters[chapter_index].title) # <<>>
    /\ current_page.frames # <<>>
    /\ current_page.frames[Len(current_page.frames)].frame_type = ChapterTitle

\* C1: with first_chapter_on_odd_page, the page holding the title frame of
\* a chapter after the first has side Right
C1_LaterTitlesOnRightPage ==
    (/\ TitleJustPlaced
     /\ chapter_index > 1
     /\ config.first_chapter_on_odd_page
     /\ RoomyConfig)
    => page_counter % 2 = 1

\* C2: for a configuration with positive sizes, margins, font sizes and
\* multipliers, paginate terminates and returns a RenderTree
C2_PaginateTerminates ==
    PositiveConfig => <>(pc = "done" /\ result.kind = "ok")

\* the call is aborted only where the loop of add_lines_to_pages cannot make
\* progress: one body line is taller than an empty page
AbortOnlyWhenLineTallerThanPage ==
    pc = "aborted" =>
       line_height(config.body_style.font_size, config.body_style.line_height)
          > calculate_content_height(config)

\* C3: a configuration with a line width <= 0, or a negative font size or
\* line-height multiplier, never yields Ok with a RenderTree
C3_IllFormedConfigRejected ==
    IllFormedConfig => result.kind # "ok"

\* C4: once a frame has been appended to the page under construction, the
\* fill offset does not exceed the usable height
C4_NoVerticalOverflow ==
    (WellFormedConfig /\ current_page.frames # <<>>)
    => current_page.current_y <= current_page.max_y

\* C5: a second layout of the same book under the same configuration returns
\* the same RenderTree as the first, frame ids and source ids included
C5_SecondLayoutIdentical ==
    (pc = "done" /\ first_result # NoResult /\ RoomyConfig) => result = first_result

\* C6: the page with 1-based number n has side Left when n - 1 is even and
\* Right when it is odd, and consecutive pages have opposite sides
PagesAlternate(pages) ==
    /\ \A i \in DOMAIN pages :
          /\ pages[i].page_number = i
          /\ pages[i].side = (IF (i - 1) % 2 = 0 THEN Left ELSE Right)
    /\ \A i \in 1..(Len(pages) - 1) : pages[i].side # pages[i + 1].side

C6_PageSidesAlternate ==
    /\ PagesAlternate(completed_pages)
    /\ result.kind = "ok" => PagesAlternate(result.tree.pages)

\* a returned tree of at least three pages
C6_Witness ==
    /\ result.kind = "ok"
    /\ Len(result.tree.pages) >= 3
    /\ result.tree.pages[1].side = Left
    /\ result.tree.pages[2].side = Right

\* C7: a frame on a Left page has its left edge at the outer margin, a frame
\* on a Right page at the inner margin
C7_FrameXMirrored ==
    RoomyConfig =>
    \A i \in DOMAIN completed_pages :
       \A k \in DOMAIN completed_pages[i].frames :
          completed_pages[i].frames[k].bounds.x =
             (IF completed_pages[i].side = Left
              THEN config.margins.outer * Scale
              ELSE config.margins.inner * Scale)

----------------------------------------------------------------------------
(* Properties of the returned RenderTree *)

Returned == result.kind = "ok"

FramesOf(pages) == Concat([i \in DOMAIN pages |-> pages[i].frames])

LinesOf(frames) == Concat([k \in DOMAIN frames |-> frames[k].lines])

SourceOf(line) == line.fragments[1].source_block_id

\* the lines of BodyText frames that carry the source id `id`, in page,
\* frame and line order
BodyLinesOf(pages, id) ==
    LET IsBody(f) == f.frame_type = BodyText
        FromBlock(l) == SourceOf(l) = id
    IN  SelectSeq(LinesOf(SelectSeq(FramesOf(pages), IsBody)), FromBlock)

\* the pages that hold a BodyText frame with a line of source id `id`
PagesOfBlock(pages, id) ==
    {i \in DOMAIN pages :
        \E k \in DOMAIN pages[i].frames :
           /\ pages[i].frames[k].frame_type = BodyText
           /\ \E j \in DOMAIN pages[i].frames[k].lines :
                 SourceOf(pages[i].frames[k].lines[j]) = id}

\* <<chapter index, block index>> of every block of the book
BlocksOfBook ==
    UNION {{<<ci, bi>> : bi \in DOMAIN book.chapters[ci].blocks} :
              ci \in DOMAIN book.chapters}

BlockAt(cb) == book.chapters[cb[1]].blocks[cb[2]]

\* the lines paginate_block gets from break_lines for a block (the content
\* width is the same on both page sides)
WrappedLines(block) ==
    break_lines(block.content, config.body_style, block.id,
                (config.page_size.width - config.margins.inner
                 - config.margins.outer) * Scale)

BodyLineHeight == config.body_style.font_size * config.body_style.line_height

\* C13: the BodyText lines of a block, read in page and frame order, are
\* exactly its wrapped lines, each once and in order; a block taller than a
\* page lies on two pages or more
C13_SplitKeepsLines ==
    Returned =>
       \A cb \in BlocksOfBook :
          /\ BodyLinesOf(result.tree.pages, BlockAt(cb).id) = WrappedLines(BlockAt(cb))
          /\ (/\ BodyLineHeight > 0
              /\ Len(WrappedLines(BlockAt(cb))) * BodyLineHeight
                    > calculate_content_height(config))
             => Cardinality(PagesOfBlock(result.tree.pages, BlockAt(cb).id)) >= 2

\* a block of three lines was returned on two pages or more
C13_Witness ==
    /\ Returned
    /\ \E cb \in BlocksOfBook :
          /\ Len(WrappedLines(BlockAt(cb))) >= 3
          /\ Cardinality(PagesOfBlock(result.tree.pages, BlockAt(cb).id)) >= 2

\* every frame placed so far, in page and frame order
PlacedFrames == FramesOf(completed_pages) \o current_page.frames

TitleLineHeight ==
    config.chapter_title_style.font_size * config.chapter_title_style.line_height

StyleLineHeight(f) ==
    IF f.frame_type = ChapterTitle THEN TitleLineHeight ELSE BodyLineHeight

\* C14: the height of a frame is its number of lines times the line height
\* of its style; the spacing after a title is not part of it
C14_FrameHeight ==
    /\ \A k \in DOMAIN PlacedFrames :
          PlacedFrames[k].bounds.height
             = Len(PlacedFrames[k].lines) * StyleLineHeight(PlacedFrames[k])
    /\ Returned =>
          \A k \in DOMAIN FramesOf(result.tree.pages) :
             LET f == FramesOf(result.tree.pages)[k]
             IN  f.bounds.height = Len(f.lines) * StyleLineHeight(f)

\* a returned tree with a title frame and a body frame of two lines
C14_Witness ==
    /\ Returned
    /\ \E k \in DOMAIN FramesOf(result.tree.pages) :
          FramesOf(result.tree.pages)[k].frame_type = ChapterTitle
    /\ \E k \in DOMAIN FramesOf(result.tree.pages) :
          /\ FramesOf(result.tree.pages)[k].frame_type = BodyText
          /\ Len(FramesOf(result.tree.pages)[k].lines) >= 2

\* C15: total_pages is the number of pages of the returned tree and
\* total_chapters the number of chapters of the book
C15_MetadataCounts ==
    Returned =>
       /\ result.tree.metadata.total_pages = Len(result.tree.pages)
       /\ result.tree.metadata.total_chapters = Len(book.chapters)

\* a returned tree of two pages or more for a book of two chapters, one of
\* which has no title and no block and so occupies no page
C15_Witness ==
    /\ Returned
    /\ Len(result.tree.pages) >= 2
    /\ Len(book.chapters) = 2
    /\ \E ci \in DOMAIN book.chapters :
          book.chapters[ci].title = <<>> /\ book.chapters[ci].blocks = <<>>

\* the lines add_chapter_title gets from break_lines for a title
WrappedTitle(title) ==
    break_lines(title, config.chapter_title_style, "title",
                (config.page_size.width - config.margins.inner
                 - config.margins.outer) * Scale)

\* a book of one chapter with a non-empty title and one non-empty block,
\* whose title block and body lines fit together on one page
OnePageBook ==
    /\ Len(book.chapters) = 1
    /\ WrappedTitle(book.chapters[1].title) # <<>>
    /\ Len(book.chapters[1].blocks) = 1
    /\ WrappedLines(book.chapters[1].blocks[1]) # <<>>
    /\ Len(WrappedTitle(book.chapters[1].title)) * TitleLineHeight
       + config.chapter_title_style.font_size * Scale
       + Len(WrappedLines(book.chapters[1].blocks[1])) * BodyLineHeight
       <= calculate_content_height(config)

\* C16: such a book yields one page of two frames, a ChapterTitle frame then
\* a BodyText frame, with total_pages = 1 and total_chapters = 1
C16_OnePageExample ==
    (Returned /\ OnePageBook) =>
       /\ Len(result.tree.pages) = 1
       /\ Len(result.tree.pages[1].frames) = 2
       /\ result.tree.pages[1].frames[1].frame_type = ChapterTitle
       /\ result.tree.pages[1].frames[2].frame_type = BodyText
       /\ result.tree.metadata.total_pages = 1
       /\ result.tree.metadata.total_chapters = 1

\* the call returned for such a book with a body of three lines
C16_Witness ==
    /\ Returned
    /\ WellFormedConfig
    /\ OnePageBook
    /\ Len(WrappedLines(book.chapters[1].blocks[1])) = 3

\* what a frame shows of its origin: a title frame the texts of its lines, a
\* body frame the block id its first line carries
FrameKey(f) ==
    IF f.frame_type = ChapterTitle
    THEN <<"title", [j \in DOMAIN f.lines |-> LineText(f.lines[j])]>>
    ELSE <<"body", SourceOf(f.lines[1])>>

\* the keys of a frame sequence, consecutive frames of one block taken as one
RECURSIVE CollapsedKeys(_)
CollapsedKeys(frames) ==
    IF frames = <<>> THEN <<>>
    ELSE LET rest == CollapsedKeys(Tail(frames))
             key == FrameKey(Head(frames))
         IN  IF rest # <<>> /\ key[1] = "body" /\ Head(rest) = key
             THEN rest
             ELSE <<key>> \o rest

\* the reading order of the book: per chapter its title, if it has words,
\* then its blocks that have words
ChapterKeys(chapter) ==
    (IF WrappedTitle(chapter.title) # <<>>
     THEN << <<"title", [j \in DOMAIN WrappedTitle(chapter.title) |->
                             LineText(WrappedTitle(chapter.title)[j])]>> >>
     ELSE <<>>)
    \o LET HasWords(b) == WrappedLines(b) # <<>>
           shown == SelectSeq(chapter.blocks, HasWords)
       IN  [k \in DOMAIN shown |-> <<"body", shown[k].id>>]

ReadingOrder == Concat([ci \in DOMAIN book.chapters |-> ChapterKeys(book.chapters[ci])])

IsPrefix(a, b) == Len(a) <= Len(b) /\ a = SubSeq(b, 1, Len(a))

\* C17: the frames, page by page and frame by frame, follow the reading
\* order of the book, the frames of one block contiguous: at every moment
\* the frames placed so far are a beginning of that order, and the returned
\* tree is the whole of it
C17_ReadingOrder ==
    /\ IsPrefix(CollapsedKeys(PlacedFrames), ReadingOrder)
    /\ Returned => CollapsedKeys(FramesOf(result.tree.pages)) = ReadingOrder

\* a returned tree for two chapters with titles, the first with two blocks
\* of which one is split over pages
C17_Witness ==
    /\ Returned
    /\ Len(book.chapters) = 2
    /\ Len(ReadingOrder) >= 4
    /\ Len(FramesOf(result.tree.pages)) > Len(ReadingOrder)
    /\ \A ci \in DOMAIN book.chapters : WrappedTitle(book.chapters[ci].title) # <<>>

BlockIds == {BlockAt(cb).id : cb \in BlocksOfBook}

SourcesOf(f) ==
    {f.lines[j].fragments[n].source_block_id :
        j \in DOMAIN f.lines, n \in 1..1}

\* a body frame holds lines of one block of the book, each with the one
\* fragment break_lines made for it; a title frame carries no block id
FrameSourceOk(f) ==
    /\ \A j \in DOMAIN f.lines : Len(f.lines[j].fragments) = 1
    /\ IF f.frame_type = BodyText
       THEN \E cb \in BlocksOfBook :
               /\ SourcesOf(f) = {BlockAt(cb).id}
               /\ \A j \in DOMAIN f.lines :
                     f.lines[j] \in Range(WrappedLines(BlockAt(cb)))
       ELSE SourcesOf(f) \cap BlockIds = {}

\* a step of add_lines_to_pages that places a frame places lines of the
\* block paginate_block is working on
NewFrameFromCurrentBlock ==
    (pc = "lines" /\ Len(PlacedFrames') = Len(PlacedFrames) + 1) =>
       LET f == PlacedFrames'[Len(PlacedFrames')]
       IN  /\ f.frame_type = BodyText
           /\ SourcesOf(f) = {book.chapters[chapter_index].blocks[block_index].id}

\* C18: a body fragment carries the id of the block it was wrapped from, a
\* frame never mixes two blocks, and a title fragment carries no block id
C18_SourceBlockIds ==
    /\ [](\A k \in DOMAIN PlacedFrames : FrameSourceOk(PlacedFrames[k]))
    /\ [](Returned =>
            \A k \in DOMAIN FramesOf(result.tree.pages) :
               FrameSourceOk(FramesOf(result.tree.pages)[k]))
    /\ [][NewFrameFromCurrentBlock]_vars

\* a returned tree with a title frame and body frames of two blocks
C18_Witness ==
    /\ Returned
    /\ \E k \in DOMAIN FramesOf(result.tree.pages) :
          FramesOf(result.tree.pages)[k].frame_type = ChapterTitle
    /\ Cardinality(UNION {SourcesOf(FramesOf(result.tree.pages)[k]) :
                             k \in DOMAIN FramesOf(result.tree.pages)}
                   \cap BlockIds) >= 2

\* a line of the result of break_lines at 1-based position i
LineShapeOk(line, i) ==
    /\ Len(line.fragments) = 1
    /\ line.fragments[1].x_offset = 0
    /\ line.fragments[1].style = lb_style
    /\ line.fragments[1].text = join(WordsOfLine(line))
    /\ line.y_offset = (i - 1) * lb_style.font_size * lb_style.line_height

\* break_lines only ever appends to `lines`, and the line it appends holds
\* the words of the current line
PushesCurrentLine ==
    /\ Len(lb_lines') \in {Len(lb_lines), Len(lb_lines) + 1}
    /\ SubSeq(lb_lines', 1, Len(lb_lines)) = lb_lines
    /\ Len(lb_lines') = Len(lb_lines) + 1 =>
          LineText(lb_lines'[Len(lb_lines')]) = join(current_line_words)

\* C19: every emitted line is one fragment at x_offset 0 holding the words of
\* the line joined by single spaces, and line i (0-based) has y_offset
\* i * font_size * multiplier
C19_LineShape ==
    /\ [](\A i \in DOMAIN lb_lines : LineShapeOk(lb_lines[i], i))
    /\ [][PushesCurrentLine]_vars

\* break_lines returned two lines or more, one of them of two words
C19_Witness ==
    /\ LBDone
    /\ Len(lb_lines) >= 2
    /\ \E i \in DOMAIN lb_lines : Len(WordsOfLine(lb_lines[i])) >= 2
    /\ lb_lines[2].y_offset = lb_style.font_size * lb_style.line_height
    /\ lb_lines[2].y_offset > 0

\* C20: a book without chapters returns Ok with no page and both totals 0;
\* a call that returns, returns Ok, whatever chapters and blocks are empty
C20_EmptyBookOk ==
    /\ pc = "done" => Returned
    /\ (pc = "done" /\ book.chapters = <<>>) =>
          /\ result.tree.pages = <<>>
          /\ result.tree.metadata.total_pages = 0
          /\ result.tree.metadata.total_chapters = 0

\* the call returned for the book without chapters
C20_Witness ==
    /\ pc = "done"
    /\ book.chapters = <<>>
    /\ Returned
    /\ result.tree.pages = <<>>

----------------------------------------------------------------------------
(* Properties of BkParser::parse_string (SpecBk) *)

\* how a reader of the format sees a line of the input
IsBlank(l) == trim(l) = <<>>
IsHeader(l) == starts_with(trim(l), ChapterPrefix)
IsBlockLine(l) == starts_with(trim(l), Line_Block)
IsPageLine(l) == starts_with(trim(l), PagePrefix)
IsFieldLine(l, prefix) == starts_with(trim(l), prefix)
IsMetaLine(l) ==
    \/ IsFieldLine(l, TitlePrefix) \/ IsFieldLine(l, AuthorPrefix)
    \/ IsFieldLine(l, IdPrefix) \/ IsFieldLine(l, DedicationPrefix)
IsTextLine(l) == ~IsBlank(l) /\ ~IsHeader(l) /\ ~starts_with(trim(l), <<"@">>)

Parsed == bk_pc = "done" /\ parse_result.kind = "ok"
Failed == bk_pc = "done" /\ parse_result.kind = "err"
FailedWith(e) == Failed /\ parse_result.err = e

\* positions of the #chapter: headers, and the lines of the k-th chapter
HeaderPositions(c) == {i \in DOMAIN c : IsHeader(c[i])}
HeaderAt(c, k) ==
    CHOOSE i \in HeaderPositions(c) :
        Cardinality({j \in HeaderPositions(c) : j < i}) = k - 1
ChapterBody(c, k) ==
    LET from == HeaderAt(c, k)
        later == {j \in HeaderPositions(c) : j > from}
        to == IF later = {} THEN Len(c)
              ELSE (CHOOSE j \in later : \A j2 \in later : j <= j2) - 1
    IN  SubSeq(c, from + 1, to)

\* the lines joined by "\n", blank lines left out
RECURSIVE JoinLines(_)
JoinLines(ls) ==
    IF ls = <<>> THEN <<>>
    ELSE IF IsBlank(Head(ls)) THEN JoinLines(Tail(ls))
    ELSE IF JoinLines(Tail(ls)) = <<>> THEN Head(ls)
    ELSE Head(ls) \o <<"\n">> \o JoinLines(Tail(ls))

\* the sections of a chapter body: the lines after each marker line up to the
\* next marker line; IsMarker(l) tells the marker lines
RECURSIVE SectionsOf(_, _, _, _)
SectionsOf(ls, IsMarker(_), cur, acc) ==
    IF ls = <<>> THEN (IF cur = None THEN acc ELSE Append(acc, unwrap(cur)))
    ELSE IF IsMarker(Head(ls))
         THEN SectionsOf(Tail(ls), IsMarker, Some(<<>>),
                         IF cur = None THEN acc ELSE Append(acc, unwrap(cur)))
    ELSE IF cur = None THEN SectionsOf(Tail(ls), IsMarker, cur, acc)
    ELSE SectionsOf(Tail(ls), IsMarker, Some(Append(unwrap(cur), Head(ls))), acc)

\* the trimmed contents of the sections that have content
SectionContents(ls, IsMarker(_)) ==
    LET secs == SectionsOf(ls, IsMarker, None, <<>>)
    IN  SelectSeq([i \in DOMAIN secs |-> trim(JoinLines(secs[i]))],
                  LAMBDA t : t # <<>>)

BlockContents(chapter) == [i \in DOMAIN chapter.blocks |-> chapter.blocks[i].content]

\* every text line of the input follows a line IsMarker of its chapter, and
\* the input has no other @ line than its metadata fields and those markers
SectionedBy(c, IsMarker(_)) ==
    \A i \in DOMAIN c :
        /\ IsTextLine(c[i]) =>
              \E j \in 1..(i - 1) :
                  /\ IsMarker(c[j])
                  /\ \A h \in j..i : ~IsHeader(c[h])
        /\ starts_with(trim(c[i]), <<"@">>) =>
              \/ IsMarker(c[i])
              \/ (IsMetaLine(c[i]) /\ HeaderPositions(c) \cap 1..i = {})

\* C21: in a returned Book, a chapter whose content is given in @block:
\* sections has one block per section with content, in source order, the
\* content being the trimmed lines of the section without the marker line
C21_BlockMarkerStartsBlock ==
    (Parsed /\ SectionedBy(content, IsBlockLine)) =>
        \A k \in DOMAIN parse_result.book.chapters :
            BlockContents(parse_result.book.chapters[k])
                = SectionContents(ChapterBody(content, k), IsBlockLine)

HasField(c, prefix) == \E i \in DOMAIN c : IsFieldLine(c[i], prefix)

\* parse_string returned the error of one of its lines
LineErrorKinds == {"DuplicateMetadata", "MalformedMetadata", "InvalidUuid",
                   "MissingChapterTitle", "BlockBeforeChapter"}
LineRejected == Failed /\ parse_result.err.kind \in LineErrorKinds

\* C22: an input without @title: line never returns a Book, nor does one
\* without @author: line; unless one of its lines is rejected first, the
\* error is MissingMetadata "title", and MissingMetadata "author" when only
\* the author is missing, whatever chapters and blocks the input has
C22_MissingTitleOrAuthor ==
    bk_pc = "done" =>
        /\ ~HasField(content, TitlePrefix) =>
              /\ Failed
              /\ ~LineRejected => parse_result.err = [kind |-> "MissingMetadata", field |-> "title"]
        /\ (HasField(content, TitlePrefix) /\ ~HasField(content, AuthorPrefix)) =>
              /\ Failed
              /\ ~LineRejected => parse_result.err = [kind |-> "MissingMetadata", field |-> "author"]

\* an input with a title, a chapter and a block but no author was refused
C22_Witness ==
    /\ FailedWith([kind |-> "MissingMetadata", field |-> "author"])
    /\ HasField(content, TitlePrefix)
    /\ ~HasField(content, AuthorPrefix)
    /\ chapters # <<>>
    /\ chapters[1].blocks # <<>>

\* C23: an input with title and author and no #chapter: header never returns
\* a Book and, unless one of its lines is rejected first, fails with
\* NoChapters; a returned Book has one chapter or more
C23_NoChapters ==
    bk_pc = "done" =>
        /\ (/\ HasField(content, TitlePrefix)
            /\ HasField(content, AuthorPrefix)
            /\ HeaderPositions(content) = {}) =>
              /\ Failed
              /\ ~LineRejected => parse_result.err = [kind |-> "NoChapters"]
        /\ Parsed => Len(parse_result.book.chapters) >= 1

\* an input with title, author and text but no header was refused
C23_Witness ==
    /\ FailedWith([kind |-> "NoChapters"])
    /\ HasField(content, TitlePrefix)
    /\ HasField(content, AuthorPrefix)
    /\ HeaderPositions(content) = {}
    /\ \E i \in DOMAIN content : IsTextLine(content[i])

MetadataFields == {"title", "author", "id", "dedication"}
PrefixOf(field) ==
    CASE field = "title" -> TitlePrefix
      [] field = "author" -> AuthorPrefix
      [] field = "id" -> IdPrefix
      [] field = "dedication" -> DedicationPrefix

\* the number of the line of the second occurrence of a field, 0 if none
SecondOccurrence(c, field) ==
    LET at == {i \in DOMAIN c : IsFieldLine(c[i], PrefixOf(field))}
        second == {i \in at : Cardinality({j \in at : j < i}) = 1}
    IN  IF second = {} THEN 0 ELSE CHOOSE i \in second : TRUE

\* C24: parsing never goes past the second occurrence of a metadata field;
\* reaching that line fails with DuplicateMetadata of the field and of the
\* 1-based number of the line, blank lines counted; a field that is set
\* keeps its value
C24_DuplicateMetadata ==
    /\ [](\A field \in MetadataFields :
            SecondOccurrence(content, field) > 0 =>
                /\ line_number <= SecondOccurrence(content, field)
                /\ bk_pc = "done" =>
                      /\ Failed
                      /\ line_number = SecondOccurrence(content, field) =>
                            parse_result.err =
                                [kind |-> "DuplicateMetadata", field |-> field,
                                 line |-> SecondOccurrence(content, field)])
    /\ [][\A field \in MetadataFields :
            metadata[field] # None => metadata'[field] = metadata[field]]_vars

\* a second @title: inside a chapter, after a blank line, was refused
C24_Witness ==
    /\ Failed
    /\ parse_result.err.kind = "DuplicateMetadata"
    /\ parse_result.err.field = "title"
    /\ parse_result.err.line = line_number
    /\ state # "ReadingMetadata"
    /\ \E i \in 1..(line_number - 1) : IsBlank(content[i])

\* the first @page: line that no #chapter: header precedes, 0 if none
PageBeforeChapter(c) ==
    LET at == {i \in DOMAIN c : IsPageLine(c[i]) /\ HeaderPositions(c) \cap 1..i = {}}
    IN  IF at = {} THEN 0 ELSE CHOOSE i \in at : \A j \in at : i <= j

\* C25: an input with a @page: line before its first #chapter: header never
\* returns a Book, also when chapters follow; a BlockBeforeChapter error names
\* that line
C25_PageBeforeChapterFails ==
    (bk_pc = "done" /\ PageBeforeChapter(content) > 0) =>
        /\ Failed
        /\ parse_result.err.kind = "BlockBeforeChapter" =>
              parse_result.err.line = PageBeforeChapter(content)

\* parse_string never returns BlockBeforeChapter
BlockBeforeChapterUnreachable ==
    Failed => parse_result.err.kind # "BlockBeforeChapter"

\* the title a #chapter: header line gives
HeaderTitle(l) == trim(SubSeq(trim(l), Len(ChapterPrefix) + 1, Len(trim(l))))

\* C26: a returned Book has one chapter per #chapter: header, in the order
\* of the headers; the chapter at 0-based position i has order i and the
\* title of the i-th header, whether it has blocks or not
C26_ChapterOrder ==
    Parsed =>
        /\ Len(parse_result.book.chapters) = Cardinality(HeaderPositions(content))
        /\ \A k \in DOMAIN parse_result.book.chapters :
              /\ parse_result.book.chapters[k].order = k - 1
              /\ parse_result.book.chapters[k].title
                    = HeaderTitle(content[HeaderAt(content, k)])

\* a Book of two chapters or more with different titles, the first one
\* without blocks, was returned
C26_Witness ==
    /\ Parsed
    /\ Len(parse_result.book.chapters) >= 2
    /\ parse_result.book.chapters[1].blocks = <<>>
    /\ parse_result.book.chapters[2].blocks # <<>>
    /\ parse_result.book.chapters[1].title # parse_result.book.chapters[2].title

\* blocks collected so far by the parser
RECURSIVE SumLen(_)
SumLen(seqs) == IF seqs = <<>> THEN 0 ELSE Len(Head(seqs)) + SumLen(Tail(seqs))
BlocksSoFar ==
    SumLen([i \in DOMAIN chapters |-> chapters[i].blocks])
        + (IF current_chapter = None THEN 0 ELSE Len(unwrap(current_chapter).blocks))

\* line i is a @page: marker of a chapter with no content line before the
\* next marker, the next header or the end of the input
EmptySection(c, i) ==
    /\ IsPageLine(c[i])
    /\ HeaderPositions(c) \cap 1..i # {}
    /\ \A j \in (i + 1)..Len(c) :
          (\A h \in (i + 1)..j : ~IsPageLine(c[h]) /\ ~IsHeader(c[h])) => IsBlank(c[j])

----------------------------------------------------------------------------
(* Properties of the placement of titles and of the splitting of blocks (Spec) *)

\* the height of the title block of the chapter of the for loop: its lines
\* and one title font size of spacing
TitleBlockHeight ==
    Len(WrappedTitle(book.chapters[chapter_index].title)) * TitleLineHeight
        + config.chapter_title_style.font_size * Scale

\* add_chapter_title is about to place a title that does not fit in what is
\* left of the current page
TitleDoesNotFit ==
    /\ pc = "title"
    /\ WrappedTitle(book.chapters[chapter_index].title) # <<>>
    /\ TitleBlockHeight > current_page.max_y - current_page.current_y

\* C28: a title whose block height does not fit in the remaining space of
\* the current page: the step that places it first finalizes the current
\* page, with the frames it has, and leaves the title frame as the only frame
\* of the new page, at bounds.y = margins.top
C28_TitleOnNewPage ==
    [][TitleDoesNotFit =>
          /\ Len(completed_pages') = Len(completed_pages) + 1
          /\ completed_pages'[Len(completed_pages')].frames = current_page.frames
          /\ completed_pages'[Len(completed_pages')].page_number = page_counter + 1
          /\ SubSeq(completed_pages', 1, Len(completed_pages)) = completed_pages
          /\ page_counter' = page_counter + 1
          /\ Len(current_page'.frames) = 1
          /\ current_page'.frames[1].frame_type = ChapterTitle
          /\ Len(current_page'.frames[1].lines)
                = Len(WrappedTitle(book.chapters[chapter_index].title))
          /\ current_page'.frames[1].bounds.y = config.margins.top * Scale]_vars

\* without forced page breaks, a title has just been placed alone at the top
\* of a page that follows a page with frames: the title did not fit there
C28_Witness ==
    /\ WellFormedConfig
    /\ ~config.first_chapter_on_odd_page
    /\ TitleJustPlaced
    /\ Len(current_page.frames) = 1
    /\ current_page.frames[1].bounds.y = config.margins.top * Scale
    /\ completed_pages # <<>>
    /\ completed_pages[Len(completed_pages)].frames # <<>>

\* the frame lists of all pages, finished or under construction
PageFrameLists ==
    [i \in 1..(Len(completed_pages) + 1) |->
        IF i <= Len(completed_pages) THEN completed_pages[i].frames
        ELSE current_page.frames]

TitleSpacing == config.chapter_title_style.font_size * Scale

\* C29: a body frame that follows a title frame on its page starts at the
\* title's bounds.y + bounds.height + one title font size; right after a
\* title is placed the fill offset of the page is that far below the top
C29_TitleSpacing ==
    /\ \A p \in DOMAIN PageFrameLists :
          \A k \in 1..(Len(PageFrameLists[p]) - 1) :
              (/\ PageFrameLists[p][k].frame_type = ChapterTitle
               /\ PageFrameLists[p][k + 1].frame_type = BodyText) =>
                  PageFrameLists[p][k + 1].bounds.y
                      = PageFrameLists[p][k].bounds.y
                        + PageFrameLists[p][k].bounds.height + TitleSpacing
    /\ TitleJustPlaced =>
          LET title == current_page.frames[Len(current_page.frames)]
          IN  config.margins.top * Scale + current_page.current_y
                  = title.bounds.y + title.bounds.height + TitleSpacing

\* a finished page holds a title frame followed by a body frame
C29_Witness ==
    /\ WellFormedConfig
    /\ \E p \in DOMAIN completed_pages :
          \E k \in 1..(Len(completed_pages[p].frames) - 1) :
              /\ completed_pages[p].frames[k].frame_type = ChapterTitle
              /\ completed_pages[p].frames[k + 1].frame_type = BodyText
              /\ completed_pages[p].frames[k + 1].bounds.y
                    > completed_pages[p].frames[k].bounds.y
                      + completed_pages[p].frames[k].bounds.height

\* what is left of the current page
Remaining == current_page.max_y - current_page.current_y

\* add_lines_to_pages holds lines that do not all fit in what is left
LinesDoNotFit ==
    /\ pc = "lines"
    /\ lines # <<>>
    /\ Len(lines) * BodyLineHeight > Remaining

\* the largest number of the lines whose total height fits in what is left
MaxFit ==
    LET fits == {n \in 0..Len(lines) : n * BodyLineHeight <= Remaining}
    IN  IF fits = {} THEN 0 ELSE CHOOSE n \in fits : \A m \in fits : m <= n

\* C30: when the lines of a block do not all fit on the current page, the
\* step places a BodyText frame with the first MaxFit of them, the largest
\* number that fits (one more line would not), finalizes the page and keeps
\* the others for the next page; when not one line fits, the page is
\* finalized as it is
C30_SplitIsMaximal ==
    [][LinesDoNotFit =>
          IF MaxFit = 0
          THEN \/ pc' = "aborted"
               \/ /\ lines' = lines
                  /\ Len(completed_pages') = Len(completed_pages) + 1
                  /\ completed_pages'[Len(completed_pages')].frames = current_page.frames
          ELSE /\ (MaxFit + 1) * BodyLineHeight > Remaining
               /\ Len(completed_pages') = Len(completed_pages) + 1
               /\ LET frames == completed_pages'[Len(completed_pages')].frames
                  IN  /\ Len(frames) = Len(current_page.frames) + 1
                      /\ SubSeq(frames, 1, Len(current_page.frames)) = current_page.frames
                      /\ frames[Len(frames)].frame_type = BodyText
                      /\ frames[Len(frames)].lines = SubSeq(lines, 1, MaxFit)
                      /\ frames[Len(frames)].bounds.height = MaxFit * BodyLineHeight
               /\ lines' = SubSeq(lines, MaxFit + 1, Len(lines))
               /\ lines' # <<>>
               /\ pc' = "lines"
               /\ current_page'.frames = <<>>
               /\ current_page'.current_y = 0]_vars

\* a page was finalized with a body frame of two lines, the largest number
\* that fitted, and a third line waits for the next page
C30_Witness ==
    /\ WellFormedConfig
    /\ pc = "lines"
    /\ lines # <<>>
    /\ current_page.frames = <<>>
    /\ completed_pages # <<>>
    /\ LET frames == completed_pages[Len(completed_pages)].frames
       IN  /\ frames # <<>>
           /\ frames[Len(frames)].frame_type = BodyText
           /\ Len(frames[Len(frames)].lines) = 2
           /\ frames[Len(frames)].lines[1].fragments[1].source_block_id
                 = lines[1].fragments[1].source_block_id
           /\ 3 * BodyLineHeight > calculate_content_height(config)

----------------------------------------------------------------------------
(* Properties of the frames and pages of the returned tree (Spec) *)

FrameNonEmpty(f) == Len(f.lines) >= 1 /\ f.bounds.height > 0

\* C31: every frame of the returned tree, and every frame placed so far, has
\* one line or more and a positive height
C31_FramesNonEmpty ==
    /\ \A k \in DOMAIN PlacedFrames : FrameNonEmpty(PlacedFrames[k])
    /\ Returned =>
          \A k \in DOMAIN FramesOf(result.tree.pages) :
              FrameNonEmpty(FramesOf(result.tree.pages)[k])

\* the same for the configurations that validation would accept
FramesNonEmptyWhenWellFormed == WellFormedConfig => C31_FramesNonEmpty

\* C32: every page of the returned tree holds one frame or more
C32_PagesNonEmpty ==
    (RoomyConfig /\ Returned) =>
        \A i \in DOMAIN result.tree.pages : result.tree.pages[i].frames # <<>>

\* C33: in every frame of the returned tree the line at 0-based position k
\* has y_offset = k * line height of the frame's style, also in the frames
\* that continue a block on a later page
C33_LineOffsetsInFrame ==
    (RoomyConfig /\ Returned) =>
        \A i \in DOMAIN FramesOf(result.tree.pages) :
            LET f == FramesOf(result.tree.pages)[i]
            IN  \A k \in DOMAIN f.lines :
                    /\ f.lines[k].y_offset = (k - 1) * StyleLineHeight(f)
                    /\ f.lines[k].y_offset < f.bounds.height

\* the head of the for loop of paginate must force a page break
BreakForced ==
    /\ config.first_chapter_on_odd_page
    /\ chapter_index > 1
    /\ current_page_side(page_counter) = Left

\* C34: before a chapter's title is laid out the page under construction is
\* finalized exactly when the flag is set, the chapter is not the first and
\* that page is a Left page; otherwise the paginator is left as it is, and a
\* title that fits is appended to the page under construction at its fill
\* offset
C34_ForcedBreakOnlyOnLeft ==
    /\ [][(pc = "chapters" /\ pc' = "title") =>
            IF BreakForced
            THEN /\ page_counter' = page_counter + 1
                 /\ Len(completed_pages') = Len(completed_pages) + 1
                 /\ completed_pages'[Len(completed_pages')].frames = current_page.frames
                 /\ current_page'.frames = <<>>
            ELSE UNCHANGED <<current_page, completed_pages, page_counter>>]_vars
    /\ [][(/\ pc = "title"
           /\ WrappedTitle(book.chapters[chapter_index].title) # <<>>
           /\ TitleBlockHeight <= Remaining) =>
            /\ UNCHANGED <<completed_pages, page_counter>>
            /\ Len(current_page'.frames) = Len(current_page.frames) + 1
            /\ SubSeq(current_page'.frames, 1, Len(current_page.frames))
                  = current_page.frames
            /\ current_page'.frames[Len(current_page'.frames)].frame_type = ChapterTitle
            /\ current_page'.frames[Len(current_page'.frames)].bounds.y
                  = config.margins.top * Scale + current_page.current_y]_vars

\* with the flag set, the title of a later chapter has been placed after
\* other frames on a Right page
C34_Witness ==
    /\ WellFormedConfig
    /\ config.first_chapter_on_odd_page
    /\ chapter_index > 1
    /\ TitleJustPlaced
    /\ Len(current_page.frames) >= 2
    /\ current_page_side(page_counter) = Right

\* C35: page_counter is the number of completed pages and the page at
\* 0-based index i has page_number i + 1, in the paginator and in the
\* returned tree; finalizing the page under construction appends it with the
\* next number and leaves an empty page builder: no frames, fill offset 0,
\* usable height = page height - top margin - bottom margin
C35_PageNumbers ==
    /\ page_counter = Len(completed_pages)
    /\ \A i \in DOMAIN completed_pages : completed_pages[i].page_number = i
    /\ Returned =>
          \A i \in DOMAIN result.tree.pages : result.tree.pages[i].page_number = i
    /\ LET Q == finalize_current_page(Pag, config)
       IN  /\ Q.page_counter = page_counter + 1
           /\ Len(Q.completed_pages) = Len(completed_pages) + 1
           /\ Q.completed_pages[Len(Q.completed_pages)].page_number = page_counter + 1
           /\ Q.completed_pages[Len(Q.completed_pages)].frames = current_page.frames
           /\ Q.current_page.frames = <<>>
           /\ Q.current_page.current_y = 0
           /\ Q.current_page.max_y
                 = (config.page_size.height - config.margins.top
                    - config.margins.bottom) * Scale
    /\ current_page.max_y
          = (config.page_size.height - config.margins.top
             - config.margins.bottom) * Scale

\* a tree of three pages or more was returned after the page under
\* construction had been finalized with frames on it
C35_Witness ==
    /\ Returned
    /\ Len(result.tree.pages) >= 3
    /\ result.tree.pages[3].page_number = 3
    /\ result.tree.pages[3].frames # <<>>
    /\ current_page.frames = <<>>
    /\ current_page.current_y = 0

\* what add_frame adds to the fill offset for a frame
AdvanceOf(f) ==
    f.bounds.height + (IF f.frame_type = ChapterTitle THEN TitleSpacing ELSE 0)

----------------------------------------------------------------------------
(* Greedy line breaking (SpecLB) *)

\* the width of a line with one more word after a space
WidthWith(text, word) ==
    measure_text(text, lb_style.font_size)
        + measure_char(" ", lb_style.font_size)
        + measure_text(word, lb_style.font_size)

\* C37: for two consecutive emitted lines, the first word of the later line
\* would not have fit on the earlier one after a space; the step of a word
\* that fits on the current line starts no new line
C37_GreedyMaximal ==
    /\ [](\A i \in 1..(Len(lb_lines) - 1) :
            WidthWith(LineText(lb_lines[i]), Head(WordsOfLine(lb_lines[i + 1])))
                > lb_max_width)
    /\ [][(/\ lb_pc = "loop"
           /\ lb_words # <<>>
           /\ current_line_words # <<>>
           /\ WidthWith(join(current_line_words), Head(lb_words)) <= lb_max_width) =>
            /\ lb_lines' = lb_lines
            /\ current_line_words' = Append(current_line_words, Head(lb_words))]_vars

\* break_lines returned two lines or more, the first of them of two words
C37_Witness ==
    /\ LBDone
    /\ Len(lb_lines) >= 2
    /\ Len(WordsOfLine(lb_lines[1])) >= 2
    /\ WidthWith(LineText(lb_lines[1]), Head(WordsOfLine(lb_lines[2]))) > lb_max_width

----------------------------------------------------------------------------
(* Where the content of a chapter comes from (SpecBk) *)

\* the pieces of a text between the characters c
RECURSIVE SplitOn(_, _, _, _)
SplitOn(text, c, cur, acc) ==
    IF text = <<>> THEN Append(acc, cur)
    ELSE IF Head(text) = c THEN SplitOn(Tail(text), c, <<>>, Append(acc, cur))
    ELSE SplitOn(Tail(text), c, Append(cur, Head(text)), acc)

\* the lines of the blocks of a chapter of the returned Book, trimmed, in order
ChapterBlockLines(chapter) ==
    Concat([i \in DOMAIN chapter.blocks |->
               LET ls == SplitOn(chapter.blocks[i].content, "\n", <<>>, <<>>)
               IN  [j \in DOMAIN ls |-> trim(ls[j])]])

\* the content lines of the input between a header and the next, trimmed:
\* all but the blank lines, the @page: markers and the metadata fields
BodyContentLines(body) ==
    LET kept == SelectSeq(body, LAMBDA l : ~IsBlank(l) /\ ~IsPageLine(l) /\ ~IsMetaLine(l))
    IN  [j \in DOMAIN kept |-> trim(kept[j])]

\* C38: in a returned Book the blocks of a chapter hold the content lines
\* between the chapter's header and the next header, in order, and no other
\* line: a line before the first header is in no chapter
C38_ContentFromOwnChapter ==
    Parsed =>
        \A k \in DOMAIN parse_result.book.chapters :
            ChapterBlockLines(parse_result.book.chapters[k])
                = BodyContentLines(ChapterBody(content, k))

\* the same for the inputs without content line before the first header
TextBeforeFirstHeader ==
    \E i \in DOMAIN content :
        IsTextLine(content[i]) /\ HeaderPositions(content) \cap 1..i = {}

ContentFromOwnChapterWhenNoneBefore ==
    ~TextBeforeFirstHeader => C38_ContentFromOwnChapter

====
